---------------------------- MODULE Spec2Model ----------------------------
(***************************************************************************)
(* Model of the transcription pipeline of src/src/server.py: the tool      *)
(* `transcribe` and the helpers it awaits (fetch_audio_from_url,           *)
(* convert_to_mp3, detect_language, transcribe_audio_data), together with  *)
(* the pure functions it uses (is_mp3, OutputFormat, base64 decoding).     *)
(*                                                                         *)
(* A request is a coroutine.  Its position `pc` is the network call it is  *)
(* suspended on; one action runs the code from one suspension point to     *)
(* the next (or to the return).  Python values are modelled as follows:    *)
(*   str        a tuple of tokens (characters where the code looks inside  *)
(*              the string), the empty string being << >>;                 *)
(*   Optional   None, or Str(s);                                           *)
(*   bytes      a tuple of integers 0..255;                                *)
(*   dict       a record (a function on its keys).                         *)
(***************************************************************************)
EXTENDS Integers, Sequences, FiniteSets, TLC

VARIABLES
    args,               \* request -> the arguments transcribe was called with
    pc,                 \* request -> where the coroutine is suspended
    audio_data,         \* request -> local audio_data (bytes)
    filename,           \* request -> local filename (Optional[str])
    fmt,                \* request -> local fmt (an OutputFormat value)
    detected_language,  \* request -> local detected_language (Optional[str])
    result,             \* request -> what transcribe returned (or NotReturned)
    io,                 \* request -> history of its file operations, sniffs and network calls
    clients             \* request -> the httpx clients it holds open

vars == <<args, pc, audio_data, filename, fmt, detected_language, result, io, clients>>

-----------------------------------------------------------------------------
(* Python values *)

None == [tag |-> "None"]

Str(s) == [tag |-> "str", s |-> s]

\* Truth value of an Optional[str], as `if s` tests it (None and "" are false).
Truthy(v) == v.tag = "str" /\ v.s # << >>

\* Python's `a or b` on Optional[str] operands.
PyOr(a, b) == IF Truthy(a) THEN a ELSE b

\* dict.get(key): the value, or None when the key is absent.
DictGet(d, key) == IF key \in DOMAIN d THEN d[key] ELSE None

Last(s) == s[Len(s)]

-----------------------------------------------------------------------------
(* Bounds *)

\* Payload bytes that follow the header of an audio sample.
MaxTail == 1

\* Requests that run together on the event loop.
NumRequests == 2

-----------------------------------------------------------------------------
(* Exceptions and the outcome of a call that may raise *)

Exc(class, msg) == [class |-> class, msg |-> msg]

Ok(v) == [raised |-> FALSE, value |-> v]

Raise(e) == [raised |-> TRUE, exc |-> e]

\* Classes that derive from BaseException without deriving from Exception.
BaseExceptionOnly == {"CancelledError", "KeyboardInterrupt", "SystemExit", "GeneratorExit"}

\* Variant: a handler that takes the HTTP client's errors only.
ExceptExceptionLax(e) == e.class \in {"HTTPStatusError", "ConnectError", "ReadTimeout"}

\* Whether an `except Exception` clause handles the exception.
ExceptException(e) == e.class \notin BaseExceptionOnly

\* str(e)
str(e) == e.msg

-----------------------------------------------------------------------------
(* OutputFormat and str.lower() *)

UpperChars ==
    <<"A","B","C","D","E","F","G","H","I","J","K","L","M",
      "N","O","P","Q","R","S","T","U","V","W","X","Y","Z">>

LowerChars ==
    <<"a","b","c","d","e","f","g","h","i","j","k","l","m",
      "n","o","p","q","r","s","t","u","v","w","x","y","z">>

LowerChar(c) ==
    IF \E i \in 1..Len(UpperChars) : UpperChars[i] = c
      THEN LowerChars[CHOOSE i \in 1..Len(UpperChars) : UpperChars[i] = c]
      ELSE c

\* str.lower()
lower(s) == [i \in 1..Len(s) |-> LowerChar(s[i])]

\* The values of the enum OutputFormat, in declaration order.
OutputFormatValues ==
    << <<"t","e","x","t">>, <<"j","s","o","n">>, <<"v","t","t">>,
       <<"s","r","t">>, <<"t","s","v">> >>

Range(s) == {s[i] : i \in 1..Len(s)}

\* Variant: an unknown value falls back to TEXT instead of raising.
OutputFormatDefaulting(value) ==
    IF value \in Range(OutputFormatValues)
      THEN Ok(value)
      ELSE Ok(OutputFormatValues[1])

\* OutputFormat(value): the member with that value, or ValueError.
OutputFormat(value) ==
    IF value \in Range(OutputFormatValues)
      THEN Ok(value)
      ELSE Raise(Exc("ValueError", "is not a valid OutputFormat"))

-----------------------------------------------------------------------------
(* is_mp3 *)

MP3_SIGNATURES ==
    << <<255, 251>>, <<255, 250>>, <<255, 243>>, <<255, 242>>, <<73, 68, 51>> >>

\* bytes.startswith(prefix)
startswith(data, prefix) ==
    /\ Len(data) >= Len(prefix)
    /\ \A i \in 1..Len(prefix) : data[i] = prefix[i]

\* Variant: only the first byte of each signature is compared.
is_mp3_first_byte(data) ==
    \E k \in 1..Len(MP3_SIGNATURES) :
        Len(data) >= 1 /\ data[1] = MP3_SIGNATURES[k][1]

\* Variant: the loop returns after the first signature.
is_mp3_first_signature(data) == startswith(data, MP3_SIGNATURES[1])

is_mp3(data) ==
    \E k \in 1..Len(MP3_SIGNATURES) : startswith(data, MP3_SIGNATURES[k])

-----------------------------------------------------------------------------
(* base64.b64decode, not validating: binascii.a2b_base64 *)

B64Alphabet ==
    <<"A","B","C","D","E","F","G","H","I","J","K","L","M","N","O","P",
      "Q","R","S","T","U","V","W","X","Y","Z","a","b","c","d","e","f",
      "g","h","i","j","k","l","m","n","o","p","q","r","s","t","u","v",
      "w","x","y","z","0","1","2","3","4","5","6","7","8","9","+","/">>

IsB64Char(c) == \E i \in 1..Len(B64Alphabet) : B64Alphabet[i] = c

B64Value(c) == (CHOOSE i \in 1..Len(B64Alphabet) : B64Alphabet[i] = c) - 1

\* One pass over the characters: quad is the position in the current group of
\* four, left the bits not yet written, pads the "=" seen in a row, out the
\* bytes decoded so far.  Characters outside the alphabet are skipped.
RECURSIVE a2b_base64(_, _, _, _, _, _)
a2b_base64(s, i, quad, left, pads, out) ==
    IF i > Len(s)
      THEN IF quad = 0
             THEN Ok(out)
             ELSE IF quad = 1
                    THEN Raise(Exc("binascii.Error", "Invalid base64-encoded string"))
                    ELSE Raise(Exc("binascii.Error", "Incorrect padding"))
      ELSE IF s[i] = "="
        THEN IF quad >= 2 /\ quad + pads + 1 >= 4
               THEN Ok(out)
               ELSE a2b_base64(s, i + 1, quad, left,
                               IF quad >= 2 THEN pads + 1 ELSE pads, out)
        ELSE IF ~IsB64Char(s[i])
          THEN a2b_base64(s, i + 1, quad, left, pads, out)
          ELSE LET v == B64Value(s[i]) IN
               CASE quad = 0 -> a2b_base64(s, i + 1, 1, v, 0, out)
                 [] quad = 1 -> a2b_base64(s, i + 1, 2, v % 16, 0,
                                           Append(out, (left * 4 + v \div 16) % 256))
                 [] quad = 2 -> a2b_base64(s, i + 1, 3, v % 4, 0,
                                           Append(out, (left * 16 + v \div 4) % 256))
                 [] quad = 3 -> a2b_base64(s, i + 1, 0, 0, 0,
                                           Append(out, (left * 64 + v) % 256))

b64decode(s) == a2b_base64(s, 1, 0, 0, 0, << >>)

-----------------------------------------------------------------------------
(* The environment: files, paths, URLs and HTTP responses *)

PathSong == <<"/", "media", "/", "song.mp3">>

PathTalk == <<"/", "media", "/", "talk.wav">>

PathDir == <<"/", "media", "/">>

PathMissing == <<"/", "media", "/", "missing.m4a">>

\* What os.path.exists(path) answers and what open(path, "rb").read() gives.
FileSystem(path) ==
    CASE path = PathSong -> [exists |-> TRUE, read |-> Ok(<<255, 243, 0>>)]
      [] path = PathTalk -> [exists |-> TRUE, read |-> Ok(<<82, 73, 70, 70>>)]
      [] path = PathDir  -> [exists |-> TRUE,
                             read |-> Raise(Exc("IsADirectoryError", "[Errno 21] Is a directory"))]
      [] OTHER           -> [exists |-> FALSE,
                             read |-> Raise(Exc("FileNotFoundError", "[Errno 2] No such file or directory"))]

\* The part of s after the last token sep (all of s when there is none).
AfterLast(s, sep) ==
    LET at == {i \in 1..Len(s) : s[i] = sep}
    IN  IF at = {} THEN s
        ELSE SubSeq(s, (CHOOSE i \in at : \A j \in at : j <= i) + 1, Len(s))

\* The part of s before the first token sep (all of s when there is none).
BeforeFirst(s, sep) ==
    LET at == {i \in 1..Len(s) : s[i] = sep}
    IN  IF at = {} THEN s
        ELSE SubSeq(s, 1, (CHOOSE i \in at : \A j \in at : i <= j) - 1)

\* os.path.basename
basename(path) == AfterLast(path, "/")

QuoteChars == {"\"", "'"}

\* str.strip('"\'')
RECURSIVE strip_quotes(_)
strip_quotes(s) ==
    IF s = << >> THEN s
    ELSE IF s[1] \in QuoteChars THEN strip_quotes(Tail(s))
    ELSE IF Last(s) \in QuoteChars THEN strip_quotes(SubSeq(s, 1, Len(s) - 1))
    ELSE s

\* An HTTP response as the code reads it: status_code, headers and the body
\* (content, text, or the document json() parses).
Response(status_code, headers, body) ==
    [transport |-> "ok", status_code |-> status_code, headers |-> headers, body |-> body]

\* The request failed below HTTP: client.get / client.post raises.
TransportError(class) ==
    [transport |-> "error", exc |-> Exc(class, "transport error")]

NoHeaders == [server |-> <<"srv">>]

\* Response.raise_for_status(): raises unless the status is 2xx.
raise_for_status(resp) ==
    IF 200 <= resp.status_code /\ resp.status_code <= 299
      THEN Ok(resp)
      ELSE Raise(Exc("HTTPStatusError", ToString(resp.status_code)))

-----------------------------------------------------------------------------
(* Sample inputs *)

\* Headers of audio samples: each MP3 signature, signatures cut short or off
\* by one, a signature that is not at the start, a RIFF header, nothing.
AudioHeads ==
    { <<255, 251>>, <<255, 250>>, <<255, 243>>, <<255, 242>>, <<73, 68, 51>>,
      <<255>>, <<255, 252>>, <<73, 68>>, <<0, 255, 251>>, <<82, 73, 70, 70>>, << >> }

Zeros(n) == [i \in 1..n |-> 0]

AudioSamples == {h \o Zeros(n) : h \in AudioHeads, n \in 0..MaxTail}

\* audio_base64: "//s=" (FF FB), "SUQz" (ID3), "SU Qz" (ID3, a blank inside),
\* "UklG" (RIF), "/w==" (FF), "A" and "//s" (not decodable).
Base64Samples ==
    { <<"/","/","s","=">>, <<"S","U","Q","z">>, <<"S","U"," ","Q","z">>,
      <<"U","k","l","G">>, <<"/","w","=","=">>, <<"A">>, <<"/","/","s">> }

PathSamples == {PathSong, PathTalk, PathDir, PathMissing}

UrlClip == <<"http:", "/", "/", "host", "/", "clips", "/", "a.ogg", "?", "sig=1">>

UrlRoot == <<"http:", "/", "/", "host", "/">>

UrlSamples == {UrlClip, UrlRoot}

\* The default of the parameter output_format, which an omitted argument takes.
DefaultOutputFormat == <<"t","e","x","t">>

\* output_format as the caller may spell it.
FormatSamples ==
    { DefaultOutputFormat, <<"T","e","x","t">>, <<"j","s","o","n">>, <<"J","S","O","N">>,
      <<"S","r","T">>, <<"v","t","t">>, <<"T","S","V">>,
      << >>, <<"m","p","3">>, <<" ","t","e","x","t">>, <<"t","e","x","t","s">> }

FilenameSamples == {None, Str(<<"clip.m4a">>)}

Optional(S) == {None, Str(<< >>)} \cup {Str(x) : x \in S}

Arguments(b64, url, path, format, fname) ==
    [audio_base64 |-> b64, audio_url |-> url, audio_path |-> path,
     output_format |-> format, filename |-> fname]

\* Every combination of sources (absent, empty or given), with one valid and
\* one invalid format.
ArityArguments ==
    { Arguments(b, u, p, o, None) :
        b \in Optional({<<"/","/","s","=">>, <<"U","k","l","G">>}),
        u \in Optional({UrlClip}),
        p \in Optional({PathSong, PathMissing}),
        o \in {<<"T","e","x","t">>, <<"m","p","3">>} }

\* One source, in every sample format and with or without a filename.
SingleSourceArguments ==
    { Arguments(src[1], src[2], src[3], o, n) :
        src \in {<<Str(b), None, None>> : b \in Base64Samples}
                \cup {<<None, Str(u), None>> : u \in UrlSamples}
                \cup {<<None, None, Str(p)>> : p \in PathSamples},
        o \in FormatSamples,
        n \in FilenameSamples }

ArgumentSamples == ArityArguments \cup SingleSourceArguments

ContentDisposition == <<"attachment; ", "filename=", "\"", "b.wav", "\"">>

Statuses == {200, 201, 302, 500}

TransportErrors == {TransportError("ConnectError"), TransportError("ReadTimeout")}

\* What the URL may answer.
FetchResponses ==
    {Response(200, NoHeaders, d) : d \in AudioSamples}
    \cup {Response(200, NoHeaders @@ ("content-disposition" :> ContentDisposition), <<82, 73, 70, 70>>)}
    \cup {Response(st, NoHeaders, <<255, 251>>) : st \in Statuses \ {200}}
    \cup TransportErrors

\* What the conversion service may answer: MP3, or bytes that are no MP3.
ConvertResponses ==
    {Response(200, NoHeaders, <<255, 251, 144>>), Response(201, NoHeaders, <<0, 0>>)}
    \cup {Response(st, NoHeaders, <<255, 251, 144>>) : st \in {302, 500}}
    \cup TransportErrors

JsonObject(fields) == [json |-> "object", fields |-> fields]

LanguageCodeValues == {None, Str(<< >>), Str(<<"de">>)}

DetectedLanguageValues == {None, Str(<< >>), Str(<<"en">>)}

\* The bodies of the detection endpoint: objects with one, both or none of the
\* two fields (null, empty or a code), a JSON array, and text that is no JSON.
DetectBodies ==
    {JsonObject([language_code |-> c, detected_language |-> d]) :
        c \in LanguageCodeValues, d \in DetectedLanguageValues}
    \cup {JsonObject([language_code |-> c]) : c \in LanguageCodeValues}
    \cup {JsonObject([detected_language |-> d]) : d \in DetectedLanguageValues}
    \cup {JsonObject([confidence |-> Str(<<"0.9">>)]), [json |-> "array"], [json |-> "invalid"]}

DetectResponses ==
    {Response(200, NoHeaders, b) : b \in DetectBodies}
    \cup {Response(st, NoHeaders, JsonObject([language_code |-> Str(<<"de">>)])) :
            st \in Statuses \ {200}}
    \cup TransportErrors

TranscriptBodies == {<<"hello world">>, <<"{\"text\": \"hello world\"}">>, << >>}

TranscribeResponses ==
    {Response(200, NoHeaders, t) : t \in TranscriptBodies}
    \cup {Response(st, NoHeaders, <<"hello world">>) : st \in Statuses \ {200}}
    \cup TransportErrors

\* The samples for requests that run together: a URL, whose bytes need a
\* conversion, and base64 text of an MP3 header; for each call one response
\* that lets the request go on and one that does not.
ConcurrentArguments ==
    { Arguments(None, Str(UrlClip), None, DefaultOutputFormat, None),
      Arguments(Str(<<"/","/","s","=">>), None, None, <<"J","S","O","N">>, Str(<<"clip.m4a">>)) }

ConcurrentFetchResponses ==
    { Response(200, NoHeaders, <<82, 73, 70, 70>>), Response(500, NoHeaders, <<255, 251>>) }

ConcurrentConvertResponses ==
    { Response(200, NoHeaders, <<255, 251, 144>>), TransportError("ConnectError") }

ConcurrentDetectResponses ==
    { Response(200, NoHeaders, JsonObject([language_code |-> Str(<<"de">>)])),
      Response(200, NoHeaders, [json |-> "invalid"]) }

ConcurrentTranscribeResponses ==
    { Response(200, NoHeaders, <<"hello world">>), Response(500, NoHeaders, <<"hello world">>) }

-----------------------------------------------------------------------------
(* The coroutine's frame: the locals of one call of transcribe *)

NotReturned == [kind |-> "pending"]

Returned(value) == [kind |-> "return", value |-> value]

\* The coroutine ended by raising: nothing was returned to the caller.
Raised(e) == [kind |-> "raise", exc |-> e]

Frame(r) ==
    [pc |-> pc[r], audio_data |-> audio_data[r], filename |-> filename[r],
     fmt |-> fmt[r], detected_language |-> detected_language[r],
     result |-> result[r], io |-> io[r], clients |-> clients[r]]

\* Variant: audio_data is a module-level variable, which every request writes.
Commit_shared_audio_data(r, f) ==
    \E g \in {f} :
        /\ pc' = [pc EXCEPT ![r] = g.pc]
        /\ audio_data' = [q \in DOMAIN audio_data |-> g.audio_data]
        /\ filename' = [filename EXCEPT ![r] = g.filename]
        /\ fmt' = [fmt EXCEPT ![r] = g.fmt]
        /\ detected_language' = [detected_language EXCEPT ![r] = g.detected_language]
        /\ result' = [result EXCEPT ![r] = g.result]
        /\ io' = [io EXCEPT ![r] = g.io]
        /\ clients' = [clients EXCEPT ![r] = g.clients]
        /\ UNCHANGED args

\* The frame f becomes the frame of request r (f is computed once, as the
\* value g).
Commit(r, f) ==
    \E g \in {f} :
        /\ pc' = [pc EXCEPT ![r] = g.pc]
        /\ audio_data' = [audio_data EXCEPT ![r] = g.audio_data]
        /\ filename' = [filename EXCEPT ![r] = g.filename]
        /\ fmt' = [fmt EXCEPT ![r] = g.fmt]
        /\ detected_language' = [detected_language EXCEPT ![r] = g.detected_language]
        /\ result' = [result EXCEPT ![r] = g.result]
        /\ io' = [io EXCEPT ![r] = g.io]
        /\ clients' = [clients EXCEPT ![r] = g.clients]
        /\ UNCHANGED args

\* History entries.
FileOp(op, path) == [kind |-> "file", op |-> op, path |-> path]

HttpCall(svc, request) == [kind |-> "call", svc |-> svc, request |-> request]

HttpReturn(svc, resp) == [kind |-> "return", svc |-> svc, response |-> resp]

Log(f, entry) == [f EXCEPT !.io = Append(@, entry)]

\* `return value`
Return(f, value) == [f EXCEPT !.pc = "done", !.result = Returned(value)]

\* An exception no handler of transcribe took.
Propagate(f, e) == [f EXCEPT !.pc = "done", !.result = Raised(e)]

\* `async with httpx.AsyncClient(...) as client:` entered, and the request sent:
\* the coroutine is suspended until the response arrives.
Await(f, svc, request) ==
    [Log(f, HttpCall(svc, request)) EXCEPT !.pc = svc, !.clients = @ \cup {svc}]

\* Variant: the client is not closed when the response arrives (an
\* AsyncClient made without `async with`).
Resume_unreleased(f, svc, resp) == Log(f, HttpReturn(svc, resp))

\* The response arrived and the helper left its `async with` block.
Resume(f, svc, resp) ==
    [Log(f, HttpReturn(svc, resp)) EXCEPT !.clients = @ \ {svc}]

\* `except Exception as e: return {"error": f"<text>{str(e)}"}`
ExceptReturnError(f, e, text) ==
    IF ExceptException(e)
      THEN Return(f, [error |-> <<text, str(e)>>])
      ELSE Propagate(f, e)

-----------------------------------------------------------------------------
(* transcribe_audio_data and the end of transcribe *)

\* Variant: `output` is always the default format.
TranscribeParams_default_output(language, output_format) ==
    IF Truthy(language)
      THEN [output |-> OutputFormatValues[1], language |-> language.s]
      ELSE [output |-> OutputFormatValues[1]]

\* params = {"output": output_format.value}; if language: params["language"] = language
TranscribeParams(language, output_format) ==
    IF Truthy(language)
      THEN [output |-> output_format, language |-> language.s]
      ELSE [output |-> output_format]

\* transcribe_audio_data up to `await client.post(...)`.
CallTranscribe(f) ==
    Await(f, "asr",
          [method |-> "POST", url |-> "/asr",
           files |-> [field |-> "audio_file", filename |-> Str(<<"audio.mp3">>),
                      content |-> f.audio_data, content_type |-> "audio/mpeg"],
           params |-> TranscribeParams(f.detected_language, f.fmt)])

\* Variant: response.raise_for_status() is left out.
transcribe_audio_data_unchecked(resp, output_format) ==
    IF resp.transport = "error" THEN Raise(resp.exc)
    ELSE Ok(resp.body)

\* transcribe_audio_data from the response on: what it returns or raises.
transcribe_audio_data(resp, output_format) ==
    IF resp.transport = "error" THEN Raise(resp.exc)
    ELSE IF raise_for_status(resp).raised THEN raise_for_status(resp)
    ELSE IF output_format = OutputFormatValues[2] THEN Ok(resp.body)
    ELSE Ok(resp.body)

\* The success record transcribe returns.
SuccessResult(transcription, language, format) ==
    [transcription |-> transcription, detected_language |-> language,
     output_format |-> format]

\* Variant: a transcription that failed is tried a second time.
ResumeTranscribe_retry(f, resp) ==
    LET f1 == Resume(f, "asr", resp)
        out == transcribe_audio_data(resp, f.fmt)
        tried == {i \in DOMAIN f.io : f.io[i].kind = "call" /\ f.io[i].svc = "asr"}
    IN  IF out.raised
          THEN IF Cardinality(tried) = 1
                 THEN CallTranscribe(f1)
                 ELSE ExceptReturnError(f1, out.exc, "Transcription failed: ")
          ELSE Return(f1, SuccessResult(out.value, f.detected_language, f.fmt))

\* transcribe from the transcription response to its return.
ResumeTranscribe(f, resp) ==
    LET f1 == Resume(f, "asr", resp)
        out == transcribe_audio_data(resp, f.fmt)
    IN  IF out.raised
          THEN ExceptReturnError(f1, out.exc, "Transcription failed: ")
          ELSE Return(f1, SuccessResult(out.value, f.detected_language, f.fmt))

-----------------------------------------------------------------------------
(* detect_language *)

\* detected_language = None; detect_language up to `await client.post(...)`.
CallDetect(f) ==
    Await([f EXCEPT !.detected_language = None], "detect",
          [method |-> "POST", url |-> "/detect-language",
           files |-> [field |-> "audio_file", filename |-> Str(<<"audio.mp3">>),
                      content |-> f.audio_data, content_type |-> "audio/mpeg"]])

\* response.json(), then result.get(...) or result.get(...)
LanguageOf(body) ==
    CASE body.json = "invalid" -> Raise(Exc("JSONDecodeError", "Expecting value"))
      [] body.json = "array"   -> Raise(Exc("AttributeError", "'list' object has no attribute 'get'"))
      [] OTHER -> Ok(PyOr(DictGet(body.fields, "language_code"),
                          DictGet(body.fields, "detected_language")))

\* detect_language from the response on: what it returns or raises.
detect_language(resp) ==
    IF resp.transport = "error" THEN Raise(resp.exc)
    ELSE IF resp.status_code = 200 THEN LanguageOf(resp.body)
    ELSE Ok(None)

\* Variant: a detection that raised is tried a second time.
ResumeDetect_retry(f, resp) ==
    LET f1 == Resume(f, "detect", resp)
        out == detect_language(resp)
        tried == {i \in DOMAIN f.io : f.io[i].kind = "call" /\ f.io[i].svc = "detect"}
    IN  IF out.raised
          THEN IF Cardinality(tried) = 1
                 THEN CallDetect(f1)
                 ELSE CallTranscribe(f1)
          ELSE CallTranscribe([f1 EXCEPT !.detected_language = out.value])

\* transcribe from the detection response to the transcription call.
ResumeDetect(f, resp) ==
    LET f1 == Resume(f, "detect", resp)
        out == detect_language(resp)
    IN  IF out.raised
          THEN IF ExceptException(out.exc)
                 THEN CallTranscribe(f1)
                 ELSE Propagate(f1, out.exc)
          ELSE CallTranscribe([f1 EXCEPT !.detected_language = out.value])

-----------------------------------------------------------------------------
(* convert_to_mp3 and the sniffing *)

\* convert_to_mp3 up to `await client.post(...)`.
CallConvert(f) ==
    Await(f, "convert",
          [method |-> "POST", url |-> "/convert/audio/to/mp3",
           files |-> [field |-> "file", filename |-> f.filename,
                      content |-> f.audio_data]])

\* Variant: response.raise_for_status() is left out.
convert_to_mp3_unchecked(resp) ==
    IF resp.transport = "error" THEN Raise(resp.exc)
    ELSE Ok(resp.body)

\* convert_to_mp3 from the response on: what it returns or raises.
convert_to_mp3(resp) ==
    IF resp.transport = "error" THEN Raise(resp.exc)
    ELSE IF raise_for_status(resp).raised THEN raise_for_status(resp)
    ELSE Ok(resp.body)

\* Variant: after a conversion the transcription is called without detection.
ResumeConvert_skip_detect(f, resp) ==
    LET f1 == Resume(f, "convert", resp)
        out == convert_to_mp3(resp)
    IN  IF out.raised
          THEN ExceptReturnError(f1, out.exc, "Failed to convert audio to MP3: ")
          ELSE CallTranscribe([f1 EXCEPT !.audio_data = out.value])

\* Variant: the body of the conversion response is not kept; the resolved
\* bytes go on to the detection.
ResumeConvert_keeps_input(f, resp) ==
    LET f1 == Resume(f, "convert", resp)
        out == convert_to_mp3(resp)
    IN  IF out.raised
          THEN ExceptReturnError(f1, out.exc, "Failed to convert audio to MP3: ")
          ELSE CallDetect(f1)

\* transcribe from the conversion response to the detection call.
ResumeConvert(f, resp) ==
    LET f1 == Resume(f, "convert", resp)
        out == convert_to_mp3(resp)
    IN  IF out.raised
          THEN ExceptReturnError(f1, out.exc, "Failed to convert audio to MP3: ")
          ELSE CallDetect([f1 EXCEPT !.audio_data = out.value])

\* if not is_mp3(audio_data): audio_data = await convert_to_mp3(...)
\* The history keeps the bytes that were sniffed and the sniffer's verdict.
\* (The frame f is computed once, as the value g.)
Sniff(f) ==
    LET sniffed(g) ==
            LET f1 == Log(g, [kind |-> "sniff", data |-> g.audio_data, mp3 |-> is_mp3(g.audio_data)])
            IN  IF ~is_mp3(g.audio_data) THEN CallConvert(f1) ELSE CallDetect(f1)
    IN  CHOOSE next \in {sniffed(g) : g \in {f}} : TRUE

-----------------------------------------------------------------------------
(* fetch_audio_from_url and the resolution of the source *)

\* fetch_audio_from_url up to `await client.get(url)`.
CallFetch(f, url) ==
    Await(f, "fetch", [method |-> "GET", url |-> url])

\* filename = url.split("/")[-1].split("?")[0] or "audio", replaced by the
\* filename= field of a content-disposition header when there is one.
FetchedFilename(url, headers) ==
    LET from_url == IF BeforeFirst(AfterLast(url, "/"), "?") # << >>
                      THEN BeforeFirst(AfterLast(url, "/"), "?")
                      ELSE <<"audio">>
    IN  IF "content-disposition" \in DOMAIN headers
           /\ "filename=" \in Range(headers["content-disposition"])
          THEN strip_quotes(AfterLast(headers["content-disposition"], "filename="))
          ELSE from_url

\* Variant: the response of the URL is taken without raise_for_status.
fetch_audio_from_url_unchecked(url, resp) ==
    IF resp.transport = "error" THEN Raise(resp.exc)
    ELSE Ok([content |-> resp.body, filename |-> Str(FetchedFilename(url, resp.headers))])

\* fetch_audio_from_url from the response on: what it returns or raises.
fetch_audio_from_url(url, resp) ==
    IF resp.transport = "error" THEN Raise(resp.exc)
    ELSE IF raise_for_status(resp).raised THEN raise_for_status(resp)
    ELSE Ok([content |-> resp.body, filename |-> Str(FetchedFilename(url, resp.headers))])

\* transcribe from the response of the URL to the next call.
ResumeFetch(f, a, resp) ==
    LET f1 == Resume(f, "fetch", resp)
        out == fetch_audio_from_url(a.audio_url.s, resp)
    IN  IF out.raised
          THEN ExceptReturnError(f1, out.exc, "Failed to get audio data: ")
          ELSE Sniff([f1 EXCEPT !.audio_data = out.value.content,
                                !.filename = PyOr(f.filename, out.value.filename)])

\* The `try:` block "Get audio data" for audio_base64.
FromBase64(f, a) ==
    LET out == b64decode(a.audio_base64.s)
    IN  IF out.raised
          THEN ExceptReturnError(f, out.exc, "Failed to get audio data: ")
          ELSE Sniff([f EXCEPT !.audio_data = out.value,
                               !.filename = PyOr(f.filename, Str(<<"audio">>))])

\* Variant: the file is opened without the os.path.exists test.
FromPath_without_exists(f, a) ==
    LET path == a.audio_path.s
        f2 == Log(f, FileOp("read", path))
    IN  IF FileSystem(path).read.raised
          THEN ExceptReturnError(f2, FileSystem(path).read.exc, "Failed to get audio data: ")
          ELSE Sniff([f2 EXCEPT !.audio_data = FileSystem(path).read.value,
                                !.filename = PyOr(f.filename, Str(basename(path)))])

\* The `try:` block "Get audio data" for audio_path.
FromPath(f, a) ==
    LET path == a.audio_path.s
        f1 == Log(f, FileOp("exists", path))
        f2 == Log(f1, FileOp("read", path))
    IN  IF ~FileSystem(path).exists
          THEN Return(f1, [error |-> <<"File not found: ", path>>])
          ELSE IF FileSystem(path).read.raised
            THEN ExceptReturnError(f2, FileSystem(path).read.exc, "Failed to get audio data: ")
            ELSE Sniff([f2 EXCEPT !.audio_data = FileSystem(path).read.value,
                                  !.filename = PyOr(f.filename, Str(basename(path)))])

\* if audio_base64: ... elif audio_path: ... else: (audio_url)
GetAudioData(f, a) ==
    IF Truthy(a.audio_base64) THEN FromBase64(f, a)
    ELSE IF Truthy(a.audio_path) THEN FromPath(f, a)
    ELSE CallFetch(f, a.audio_url.s)

-----------------------------------------------------------------------------
(* The validation at the start of transcribe *)

\* Variant: audio_path is missing from the list of sources.
provided_sources_short(a) ==
    LET sources == <<a.audio_base64, a.audio_url>>
    IN  Cardinality({i \in 1..Len(sources) : Truthy(sources[i])})

\* provided_sources = sum(1 for s in sources if s)
provided_sources(a) ==
    LET sources == <<a.audio_base64, a.audio_url, a.audio_path>>
    IN  Cardinality({i \in 1..Len(sources) : Truthy(sources[i])})

\* fmt = OutputFormat(output_format.lower()), ValueError being the invalid format
ParseOutputFormat(output_format) == OutputFormat(lower(output_format))

\* transcribe from its call to the first network call, or to its return.
Begin(f, a) ==
    IF provided_sources(a) = 0
      THEN Return(f, [error |-> <<"Provide", " one of: audio_base64, audio_url, or audio_path">>])
    ELSE IF provided_sources(a) > 1
      THEN Return(f, [error |-> <<"Provide", " only one of: audio_base64, audio_url, or audio_path">>])
    ELSE IF ParseOutputFormat(a.output_format).raised
      THEN Return(f, [error |-> <<"Invalid output_format. Choose from: ", OutputFormatValues>>])
    ELSE GetAudioData([f EXCEPT !.fmt = ParseOutputFormat(a.output_format).value], a)

-----------------------------------------------------------------------------
(* The state machine *)

Requests == DOMAIN args

InitRequests(samples, ids) ==
    /\ args \in [ids -> samples]
    /\ pc = [r \in ids |-> "start"]
    /\ audio_data = [r \in ids |-> << >>]
    /\ filename = [r \in ids |-> args[r].filename]
    /\ fmt = [r \in ids |-> << >>]
    /\ detected_language = [r \in ids |-> None]
    /\ result = [r \in ids |-> NotReturned]
    /\ io = [r \in ids |-> << >>]
    /\ clients = [r \in ids |-> {}]

\* One request, with any of the sample arguments.
Init == InitRequests(ArgumentSamples, {1})

\* Several requests, each with any of the few concurrent arguments.
InitConcurrent == InitRequests(ConcurrentArguments, 1..NumRequests)

\* The responses a call may get: every sample for a request that runs alone,
\* the few concurrent samples when several requests run together.
Served(all, few) == IF Cardinality(Requests) = 1 THEN all ELSE few

\* The tool is called: the coroutine runs to its first suspension or return.
Transcribe(r) ==
    /\ pc[r] = "start"
    /\ Commit(r, Begin(Frame(r), args[r]))

\* The URL answers (or the connection fails).
FetchResponds(r) ==
    /\ pc[r] = "fetch"
    /\ \E resp \in Served(FetchResponses, ConcurrentFetchResponses) : Commit(r, ResumeFetch(Frame(r), args[r], resp))

\* The conversion service answers.
ConvertResponds(r) ==
    /\ pc[r] = "convert"
    /\ \E resp \in Served(ConvertResponses, ConcurrentConvertResponses) : Commit(r, ResumeConvert(Frame(r), resp))

\* The detection endpoint answers.
DetectResponds(r) ==
    /\ pc[r] = "detect"
    /\ \E resp \in Served(DetectResponses, ConcurrentDetectResponses) : Commit(r, ResumeDetect(Frame(r), resp))

\* The transcription endpoint answers.
TranscribeResponds(r) ==
    /\ pc[r] = "asr"
    /\ \E resp \in Served(TranscribeResponses, ConcurrentTranscribeResponses) : Commit(r, ResumeTranscribe(Frame(r), resp))

Next ==
    \/ \E r \in Requests : Transcribe(r)
    \/ \E r \in Requests : FetchResponds(r)
    \/ \E r \in Requests : ConvertResponds(r)
    \/ \E r \in Requests : DetectResponds(r)
    \/ \E r \in Requests : TranscribeResponds(r)

Spec == Init /\ [][Next]_vars

\* Several requests interleaved at their awaits.
SpecConcurrent == InitConcurrent /\ [][Next]_vars

\* The steps of one request.
RequestStep(r) ==
    \/ Transcribe(r)
    \/ FetchResponds(r)
    \/ ConvertResponds(r)
    \/ DetectResponds(r)
    \/ TranscribeResponds(r)

\* The event loop runs a called coroutine, and every call that is awaited
\* ends, by a response or by a failure.
Fairness == \A r \in 1..NumRequests : WF_vars(RequestStep(r))

SpecFair == SpecConcurrent /\ Fairness

-----------------------------------------------------------------------------
(* Vocabulary of the properties *)

Done(r) == pc[r] = "done"

SuccessKeys == {"transcription", "detected_language", "output_format"}

IsError(r) == result[r].kind = "return" /\ DOMAIN result[r].value = {"error"}

IsSuccess(r) == result[r].kind = "return" /\ DOMAIN result[r].value = SuccessKeys

\* Positions in the history of the calls to, and the responses of, a service.
CallsTo(r, svc) ==
    {i \in DOMAIN io[r] : io[r][i].kind = "call" /\ io[r][i].svc = svc}

ReturnsOf(r, svc) ==
    {i \in DOMAIN io[r] : io[r][i].kind = "return" /\ io[r][i].svc = svc}

NetworkCalls(r) == {i \in DOMAIN io[r] : io[r][i].kind = "call"}

FileReads(r) == {i \in DOMAIN io[r] : io[r][i].kind = "file" /\ io[r][i].op = "read"}

Sniffs(r) == {i \in DOMAIN io[r] : io[r][i].kind = "sniff"}

\* A call that failed: a transport error, or a response that is not 2xx.
Failed(resp) ==
    \/ resp.transport = "error"
    \/ resp.status_code < 200
    \/ resp.status_code > 299

\* The detail an error message carries for a failed call.
FailureDetail(resp) ==
    IF resp.transport = "error" THEN resp.exc.msg ELSE ToString(resp.status_code)

\* The sources that are given: neither absent nor empty.
SourcesGiven(a) ==
    {k \in {"audio_base64", "audio_url", "audio_path"} : a[k] # None /\ a[k].s # << >>}

ValidFormats ==
    { <<"t","e","x","t">>, <<"j","s","o","n">>, <<"s","r","t">>,
      <<"v","t","t">>, <<"t","s","v">> }

EqualsIgnoringCase(s, t) ==
    /\ Len(s) = Len(t)
    /\ \A i \in 1..Len(s) : LowerChar(s[i]) = LowerChar(t[i])

FormatIsValid(a) == \E v \in ValidFormats : EqualsIgnoringCase(a.output_format, v)

\* The error names the valid formats.
NamesValidFormats(r) ==
    /\ result[r].value.error[1] = "Invalid output_format. Choose from: "
    /\ Range(result[r].value.error[2]) = ValidFormats

-----------------------------------------------------------------------------
(* C1: whatever the arguments and whatever each stage does, what transcribe *)
(* gives back is a mapping whose keys are exactly {error} or exactly        *)
(* {transcription, detected_language, output_format}; it never ends by an   *)
(* exception, and returns nothing before it is done.                        *)
C1_ResultShape ==
    \A r \in Requests :
        IF Done(r)
          THEN /\ result[r].kind = "return"
               /\ DOMAIN result[r].value \in {{"error"}, SuccessKeys}
          ELSE result[r] = NotReturned

\* Failures met on the way: the detection body was no JSON, and the request
\* still ended with a success record; or a decoding error ended it.
C1_Witness ==
    \E r \in Requests :
        /\ Done(r) /\ IsSuccess(r)
        /\ \E i \in ReturnsOf(r, "detect") :
              /\ io[r][i].response.transport = "ok"
              /\ io[r][i].response.status_code = 200
              /\ io[r][i].response.body.json = "invalid"
        /\ \E i \in ReturnsOf(r, "convert") : ~Failed(io[r][i].response)

(* C2: with no source or with several sources given, the result is an error *)
(* whose message starts with "Provide", and the request made no network     *)
(* call and read no file.  (A source is given when it is neither None nor   *)
(* the empty string.)                                                       *)
C2_ArityError ==
    \A r \in Requests :
        (pc[r] # "start" /\ Cardinality(SourcesGiven(args[r])) # 1) =>
            /\ Done(r) /\ IsError(r)
            /\ result[r].value.error[1] = "Provide"
            /\ NetworkCalls(r) = {}
            /\ FileReads(r) = {}

\* Two sources given, one of them a URL, and the call was made.
C2_Witness ==
    \E r \in Requests :
        /\ Done(r)
        /\ {"audio_url", "audio_path"} \subseteq SourcesGiven(args[r])
        /\ result[r].value.error[1] = "Provide"

(* C3, as stated: with an output_format that is none of the five formats      *)
(* (compared case-insensitively), whatever the number of sources, the result *)
(* is an error naming the valid formats and no network call is made.         *)
C3_AsStated ==
    \A r \in Requests :
        (pc[r] # "start" /\ ~FormatIsValid(args[r])) =>
            /\ Done(r) /\ IsError(r)
            /\ NamesValidFormats(r)
            /\ NetworkCalls(r) = {}

(* C3, amended: with an invalid output_format the result is an error and the *)
(* request made no network call and touched no file; the error names the     *)
(* valid formats when exactly one source is given, and is the "Provide"      *)
(* error of the source count otherwise.                                      *)
C3_InvalidFormat ==
    \A r \in Requests :
        (pc[r] # "start" /\ ~FormatIsValid(args[r])) =>
            /\ Done(r) /\ IsError(r)
            /\ io[r] = << >>
            /\ IF Cardinality(SourcesGiven(args[r])) = 1
                 THEN NamesValidFormats(r)
                 ELSE result[r].value.error[1] = "Provide"

\* One source, a format that differs from a valid one by a leading blank.
C3_Witness ==
    \E r \in Requests :
        /\ Done(r)
        /\ args[r].output_format = <<" ","t","e","x","t">>
        /\ SourcesGiven(args[r]) = {"audio_url"}
        /\ NamesValidFormats(r)

(* C4: when the conversion call fails (transport error or a response that is *)
(* not 2xx), the result is {error: "Failed to convert audio to MP3: " +       *)
(* detail} and the request never calls the detection or the transcription    *)
(* endpoint.                                                                 *)
C4_ConvertFailure ==
    \A r \in Requests :
        \A i \in ReturnsOf(r, "convert") :
            Failed(io[r][i].response) =>
                /\ Done(r) /\ IsError(r)
                /\ result[r].value.error =
                      <<"Failed to convert audio to MP3: ", FailureDetail(io[r][i].response)>>
                /\ CallsTo(r, "detect") = {}
                /\ CallsTo(r, "asr") = {}

\* The conversion service answered 302, which is no success.
C4_Witness ==
    \E r \in Requests :
        \E i \in ReturnsOf(r, "convert") :
            /\ io[r][i].response.transport = "ok"
            /\ io[r][i].response.status_code = 302
            /\ Done(r)

-----------------------------------------------------------------------------
\* A field of a detection body holds a code: it is there, not null, not empty.
HoldsCode(body, key) ==
    /\ body.json = "object"
    /\ key \in DOMAIN body.fields
    /\ body.fields[key] # None
    /\ body.fields[key].s # << >>

\* The detection answered without a language code under either name.
NoCode(resp) ==
    /\ resp.transport = "ok"
    /\ ~HoldsCode(resp.body, "language_code")
    /\ ~HoldsCode(resp.body, "detected_language")

\* The transcription call was issued without the query parameter `language`.
LanguageOmitted(r) ==
    /\ CallsTo(r, "asr") # {}
    /\ \A j \in CallsTo(r, "asr") : "language" \notin DOMAIN io[r][j].request.params

(* C5, as stated: when the detection fails or returns no code, the           *)
(* transcription service is still called, without `language`; a success      *)
(* record then has detected_language null, and an error can only be the      *)
(* transcription's.                                                          *)
C5_AsStated ==
    \A r \in Requests :
        \A i \in ReturnsOf(r, "detect") :
            (Failed(io[r][i].response) \/ NoCode(io[r][i].response)) =>
                /\ LanguageOmitted(r)
                /\ IsSuccess(r) => result[r].value.detected_language = None
                /\ (Done(r) /\ IsError(r)) => result[r].value.error[1] = "Transcription failed: "

\* The same, but for the bodies whose only code is the empty string.
C5_ExceptEmptyString ==
    \A r \in Requests :
        \A i \in ReturnsOf(r, "detect") :
            (Failed(io[r][i].response) \/ NoCode(io[r][i].response)) =>
                /\ LanguageOmitted(r)
                /\ IsSuccess(r) => result[r].value.detected_language \in {None, Str(<< >>)}
                /\ (Done(r) /\ IsError(r)) => result[r].value.error[1] = "Transcription failed: "

(* C6: when the transcription call fails (transport error or a response that *)
(* is not 2xx), the result is {error: "Transcription failed: " + detail},     *)
(* whether or not the audio was converted and a language detected.           *)
C6_TranscribeFailure ==
    \A r \in Requests :
        \A i \in ReturnsOf(r, "asr") :
            Failed(io[r][i].response) =>
                /\ Done(r) /\ IsError(r)
                /\ result[r].value.error =
                      <<"Transcription failed: ", FailureDetail(io[r][i].response)>>

\* The transcription answered 500 after a conversion and with a language sent.
C6_Witness ==
    \E r \in Requests :
        /\ Done(r)
        /\ ReturnsOf(r, "convert") # {}
        /\ \E j \in CallsTo(r, "asr") : "language" \in DOMAIN io[r][j].request.params
        /\ \E i \in ReturnsOf(r, "asr") :
              /\ io[r][i].response.transport = "ok"
              /\ io[r][i].response.status_code = 500

\* The bytes begin with FF FB, FF FA, FF F3, FF F2 or "ID3".
MatchesSignature(d) ==
    \/ Len(d) >= 2 /\ d[1] = 255 /\ d[2] \in {251, 250, 243, 242}
    \/ Len(d) >= 3 /\ d[1] = 73 /\ d[2] = 68 /\ d[3] = 51

(* C7: when the resolved bytes match no MP3 signature, the conversion        *)
(* service is called exactly once, with those bytes, and every detection or  *)
(* transcription call comes after its response.                              *)
C7_ConvertOnceBefore ==
    \A r \in Requests :
        \A i \in Sniffs(r) :
            ~MatchesSignature(io[r][i].data) =>
                /\ Cardinality(CallsTo(r, "convert")) = 1
                /\ \A c \in CallsTo(r, "convert") :
                      io[r][c].request.files.content = io[r][i].data
                /\ \A j \in CallsTo(r, "detect") \cup CallsTo(r, "asr") :
                      \E k \in ReturnsOf(r, "convert") : k < j

\* FF FC is one off a frame sync: converted, then detected and transcribed.
C7_Witness ==
    \E r \in Requests :
        /\ Done(r) /\ IsSuccess(r)
        /\ \E i \in Sniffs(r) : io[r][i].data = <<255, 252>>
        /\ CallsTo(r, "convert") # {}

(* C8: when the resolved bytes begin with an MP3 signature, the sniffer      *)
(* reports MP3 and the conversion service is never called.                   *)
C8_Mp3NeverConverted ==
    \A r \in Requests :
        \A i \in Sniffs(r) :
            MatchesSignature(io[r][i].data) =>
                /\ io[r][i].mp3
                /\ CallsTo(r, "convert") = {}

\* An ID3 tag followed by a byte, sniffed, and the request ran to its end.
C8_Witness ==
    \E r \in Requests :
        /\ Done(r) /\ IsSuccess(r)
        /\ \E i \in Sniffs(r) : io[r][i].data = <<73, 68, 51, 0>>

\* The only source given is audio_path, and no file is there.
OnlyMissingPath(r) ==
    /\ SourcesGiven(args[r]) = {"audio_path"}
    /\ ~FileSystem(args[r].audio_path.s).exists

FileNotFound(r) ==
    /\ Done(r) /\ IsError(r)
    /\ result[r].value.error[1] = "File not found: "
    /\ result[r].value.error[2] = args[r].audio_path.s
    /\ NetworkCalls(r) = {}

(* C9, as stated: a request whose only source is an audio_path that does not *)
(* exist gets {error: "File not found: " + path}, without any network call.  *)
C9_AsStated ==
    \A r \in Requests :
        (pc[r] # "start" /\ OnlyMissingPath(r)) => FileNotFound(r)

(* C9, amended: so it is when the output_format is valid; the file is not    *)
(* read.  (With an invalid output_format the error is the format's.)         *)
C9_MissingFile ==
    \A r \in Requests :
        (pc[r] # "start" /\ OnlyMissingPath(r) /\ FormatIsValid(args[r])) =>
            /\ FileNotFound(r)
            /\ FileReads(r) = {}

C9_Witness ==
    \E r \in Requests :
        /\ Done(r)
        /\ OnlyMissingPath(r) /\ FormatIsValid(args[r])
        /\ args[r].audio_path.s = PathMissing
        /\ result[r].value.error[1] = "File not found: "

(* C10: a success record has as output_format the lower-case format that     *)
(* equals the requested one ignoring case; the one transcription call was    *)
(* sent that value as `output`; and its transcription is the body of the     *)
(* transcription response, whatever the format.                              *)
C10_FormatAndBody ==
    \A r \in Requests :
        (Done(r) /\ IsSuccess(r)) =>
            /\ result[r].value.output_format \in ValidFormats
            /\ EqualsIgnoringCase(args[r].output_format, result[r].value.output_format)
            /\ Cardinality(CallsTo(r, "asr")) = 1
            /\ \A j \in CallsTo(r, "asr") :
                  io[r][j].request.params.output = result[r].value.output_format
            /\ Cardinality(ReturnsOf(r, "asr")) = 1
            /\ \A k \in ReturnsOf(r, "asr") :
                  result[r].value.transcription = io[r][k].response.body

\* "JSON" was asked for, and the service's JSON text came back as it was.
C10_Witness ==
    \E r \in Requests :
        /\ Done(r) /\ IsSuccess(r)
        /\ args[r].output_format = <<"J","S","O","N">>
        /\ result[r].value.output_format = <<"j","s","o","n">>
        /\ result[r].value.transcription = <<"{\"text\": \"hello world\"}">>

\* The request passed the validation: one source, a valid format.
Validated(r) ==
    /\ pc[r] # "start"
    /\ Cardinality(SourcesGiven(args[r])) = 1
    /\ FormatIsValid(args[r])

\* Resolving the source of the request failed: the base64 text does not
\* decode, the file is missing or cannot be read, or the fetch of the URL failed.
ResolveFailed(r) ==
    /\ Validated(r)
    /\ \/ /\ SourcesGiven(args[r]) = {"audio_base64"}
          /\ b64decode(args[r].audio_base64.s).raised
       \/ /\ SourcesGiven(args[r]) = {"audio_path"}
          /\ \/ ~FileSystem(args[r].audio_path.s).exists
             \/ FileSystem(args[r].audio_path.s).read.raised
       \/ \E i \in ReturnsOf(r, "fetch") : Failed(io[r][i].response)

(* C11: a failure to resolve the source (base64 that does not decode, a file *)
(* that is missing or cannot be read, a fetch of the URL that ends with a    *)
(* transport error or a response that is not 2xx) ends the request at once   *)
(* with an error record, and the conversion, detection and transcription     *)
(* endpoints are never called.                                               *)
C11_ResolveFailureTerminal ==
    \A r \in Requests :
        ResolveFailed(r) =>
            /\ Done(r) /\ IsError(r)
            /\ result[r].value.error[1] \in {"Failed to get audio data: ", "File not found: "}
            /\ CallsTo(r, "convert") = {}
            /\ CallsTo(r, "detect") = {}
            /\ CallsTo(r, "asr") = {}
            /\ Sniffs(r) = {}

\* The URL answered 302 with a body (redirects already followed), and the
\* request ended there.
C11_Witness ==
    \E r \in Requests :
        /\ Done(r) /\ IsError(r)
        /\ \E i \in ReturnsOf(r, "fetch") :
              /\ io[r][i].response.transport = "ok"
              /\ io[r][i].response.status_code = 302
        /\ result[r].value.error[1] = "Failed to get audio data: "

Services == {"fetch", "convert", "detect", "asr"}

\* No service was called twice for the request.
CalledAtMostOnce(r) == \A svc \in Services : Cardinality(CallsTo(r, svc)) <= 1

\* A request that is done stays as it is: no call, no change of its result.
TerminalIsFinal(r) ==
    Done(r) => /\ pc'[r] = pc[r]
               /\ io'[r] = io[r]
               /\ result'[r] = result[r]

(* C12: for every request each of the four external calls (fetch, convert,  *)
(* detect, asr) is made at most once, also after a failure (no retry), and   *)
(* once the request has returned, its history of calls and its result no     *)
(* longer change.                                                            *)
C12_AtMostOnceNoRetry ==
    /\ [](\A r \in Requests : CalledAtMostOnce(r))
    /\ [][\A r \in Requests : TerminalIsFinal(r)]_vars

\* All four calls were made, the detection failed with a transport error and
\* was not tried again, and the request is done.
C12_Witness ==
    \E r \in Requests :
        /\ Done(r)
        /\ \A svc \in Services : Cardinality(CallsTo(r, svc)) = 1
        /\ \E i \in ReturnsOf(r, "detect") : io[r][i].response.transport = "error"

\* The place of a service in the order of the stages.
StageOf(svc) ==
    CASE svc = "fetch" -> 1 [] svc = "convert" -> 2 [] svc = "detect" -> 3 [] svc = "asr" -> 4

\* Every call is followed in the history by its own response, or is the last
\* entry (the one call in flight).
OneCallInFlight(r) ==
    \A i \in NetworkCalls(r) :
        \/ i = Len(io[r]) /\ pc[r] = io[r][i].svc
        \/ /\ i < Len(io[r])
           /\ io[r][i + 1].kind = "return"
           /\ io[r][i + 1].svc = io[r][i].svc

\* The calls of a request follow the order of the stages.
CallsInStageOrder(r) ==
    \A i, j \in NetworkCalls(r) :
        i < j => StageOf(io[r][i].svc) < StageOf(io[r][j].svc)

\* Before the call at position j the source was resolved (fetched or read, then
\* sniffed) and, when the sniffed bytes match no signature, converted.
ResolvedAndTranscodedBefore(r, j) ==
    /\ \E s \in Sniffs(r) :
          /\ s < j
          /\ MatchesSignature(io[r][s].data) \/
                \E c \in ReturnsOf(r, "convert") :
                    s < c /\ c < j /\ ~Failed(io[r][c].response)
          /\ SourcesGiven(args[r]) = {"audio_url"} =>
                \E g \in ReturnsOf(r, "fetch") : g < s /\ ~Failed(io[r][g].response)
          /\ SourcesGiven(args[r]) = {"audio_path"} =>
                \E g \in FileReads(r) : g < s

(* C13: the stages of a request run one after the other, in the order        *)
(* resolve, sniff/convert, detect, transcribe: at any moment at most one      *)
(* call is in flight, the calls follow that order, the transcription is       *)
(* called only after exactly one detection attempt has completed, and the     *)
(* detection only after the source is resolved and, when needed, converted.  *)
C13_StagesSequential ==
    \A r \in Requests :
        /\ OneCallInFlight(r)
        /\ CallsInStageOrder(r)
        /\ \A j \in CallsTo(r, "asr") :
              /\ Cardinality({i \in CallsTo(r, "detect") : i < j}) = 1
              /\ Cardinality({i \in ReturnsOf(r, "detect") : i < j}) = 1
        /\ \A j \in CallsTo(r, "detect") : ResolvedAndTranscodedBefore(r, j)

\* A URL whose bytes had to be converted: fetch, convert, detect, then the
\* transcription in flight.
C13_Witness ==
    \E r \in Requests :
        /\ pc[r] = "asr"
        /\ \A svc \in Services : Cardinality(CallsTo(r, svc)) = 1
        /\ \E s \in Sniffs(r) : ~MatchesSignature(io[r][s].data)

\* The codes a detection body holds under either of the two names.
CodesIn(body) ==
    {body.fields[k] : k \in {k \in {"language_code", "detected_language"} : HoldsCode(body, k)}}

\* A detection body that is a JSON object with neither of the two names.
BothAbsent(body) ==
    /\ body.json = "object"
    /\ "language_code" \notin DOMAIN body.fields
    /\ "detected_language" \notin DOMAIN body.fields

\* What the claim says of the detection responses whose status is in `extracting`:
\* a code found in the body is returned, None when both names are absent; every
\* other response gives None and nothing is raised.  The local variable
\* detected_language of transcribe holds the returned value.
DetectReturns(r, extracting) ==
    \A i \in ReturnsOf(r, "detect") :
        LET resp == io[r][i].response
            out == detect_language(resp)
        IN  resp.transport = "ok" =>
              IF resp.status_code \in extracting
                THEN /\ CodesIn(resp.body) # {} =>
                          /\ ~out.raised
                          /\ out.value \in CodesIn(resp.body)
                          /\ detected_language[r] = out.value
                     /\ BothAbsent(resp.body) =>
                          /\ out = Ok(None)
                          /\ detected_language[r] = None
                ELSE /\ out = Ok(None)
                     /\ detected_language[r] = None

(* C14, as stated: on a 2xx response of the detection endpoint,              *)
(* detect_language returns the language code found under language_code or    *)
(* detected_language in the body, and None when both are absent; on any       *)
(* response that is not 2xx it returns None and raises nothing.              *)
C14_AsStated ==
    \A r \in Requests : DetectReturns(r, 200..299)

\* The same with "200" for "2xx" and "any other status" for "not 2xx": what
\* detect_language does.
C14_Only200 ==
    \A r \in Requests : DetectReturns(r, {200})

\* The detection answered 200 with both fields, and the code under
\* language_code went into the transcription call.
C14_Witness ==
    \E r \in Requests :
        /\ pc[r] = "asr"
        /\ \E i \in ReturnsOf(r, "detect") :
              /\ io[r][i].response.transport = "ok"
              /\ io[r][i].response.status_code = 200
              /\ Cardinality(CodesIn(io[r][i].response.body)) = 2
        /\ detected_language[r] = Str(<<"de">>)

\* The bytes a call at position j of the history uploads.
Uploaded(r, j) == io[r][j].request.files.content

\* The bytes the detection and the transcription must get: the body of the
\* conversion response when a conversion answered, the sniffed bytes otherwise.
BytesForAsr(r) ==
    IF ReturnsOf(r, "convert") # {}
      THEN {io[r][c].response.body : c \in ReturnsOf(r, "convert")}
      ELSE {io[r][s].data : s \in {s \in Sniffs(r) : MatchesSignature(io[r][s].data)}}

(* C15: the bytes sent to the detection and to the transcription endpoint    *)
(* are the same, and they are the resolved bytes when those match an MP3      *)
(* signature, the body of the conversion response otherwise; the bytes are    *)
(* sniffed once, before the conversion, so the conversion is called at most   *)
(* once even when its output matches no signature.                           *)
C15_SameBytesNoResniff ==
    \A r \in Requests :
        /\ \A j \in CallsTo(r, "detect") \cup CallsTo(r, "asr") :
              /\ Cardinality(BytesForAsr(r)) = 1
              /\ Uploaded(r, j) \in BytesForAsr(r)
        /\ \A d \in CallsTo(r, "detect") : \A a \in CallsTo(r, "asr") :
              Uploaded(r, d) = Uploaded(r, a)
        /\ Cardinality(Sniffs(r)) <= 1
        /\ Cardinality(CallsTo(r, "convert")) <= 1
        /\ \A s \in Sniffs(r) : \A c \in CallsTo(r, "convert") : s < c

\* The conversion answered with bytes that match no signature, and these
\* bytes went to the detection and to the transcription.
C15_Witness ==
    \E r \in Requests :
        /\ Done(r) /\ IsSuccess(r)
        /\ \E c \in ReturnsOf(r, "convert") :
              /\ ~MatchesSignature(io[r][c].response.body)
              /\ \E d \in CallsTo(r, "detect") : Uploaded(r, d) = io[r][c].response.body
              /\ \E a \in CallsTo(r, "asr") : Uploaded(r, a) = io[r][c].response.body

\* The frame of transcribe at its call.
NewFrame(a) ==
    [pc |-> "start", audio_data |-> << >>, filename |-> a.filename, fmt |-> << >>,
     detected_language |-> None, result |-> NotReturned, io |-> << >>, clients |-> {}]

\* transcribe resumed with the response of the call it is suspended on.
ResumeWith(f, a, resp) ==
    CASE f.pc = "fetch"   -> ResumeFetch(f, a, resp)
      [] f.pc = "convert" -> ResumeConvert(f, resp)
      [] f.pc = "detect"  -> ResumeDetect(f, resp)
      [] f.pc = "asr"     -> ResumeTranscribe(f, resp)
      [] OTHER            -> f

RECURSIVE RunWith(_, _, _)
RunWith(f, a, responses) ==
    IF responses = << >> THEN f
    ELSE RunWith(ResumeWith(f, a, Head(responses)), a, Tail(responses))

\* transcribe run alone with arguments a, its calls answered by `responses`
\* in turn.
RunAlone(a, responses) == RunWith(Begin(NewFrame(a), a), a, responses)

\* The responses the request got, in the order it got them.
ResponsesTo(r) ==
    LET returns == SelectSeq(io[r], LAMBDA e : e.kind = "return")
    IN  [i \in 1..Len(returns) |-> returns[i].response]

(* C16: with several requests interleaved at their awaits, each request's    *)
(* history of external calls, its position and its result are those of the   *)
(* same request run alone with the same arguments and the same responses to   *)
(* its own calls: no request sees another's progress or result.              *)
C16_RequestsIsolated ==
    \A r \in Requests :
        pc[r] # "start" =>
            LET alone == RunAlone(args[r], ResponsesTo(r))
            IN  /\ pc[r] = alone.pc
                /\ io[r] = alone.io
                /\ result[r] = alone.result

\* Two requests are suspended at the same time, one on the transcription and
\* one on the conversion, each holding its own bytes.
C16_Witness ==
    \E r, q \in Requests :
        /\ r # q
        /\ pc[r] = "asr" /\ pc[q] = "convert"
        /\ audio_data[r] # audio_data[q]
        /\ ResponsesTo(r) # << >>

(* C17: each external call opens a client of its own, which is released on   *)
(* every way out of the call, by return or by exception: a request holds at   *)
(* most one open client at any time, the one of the call it is suspended on,  *)
(* and none once it has returned.                                            *)
C17_OneClientReleased ==
    \A r \in Requests :
        /\ Cardinality(clients[r]) <= 1
        /\ clients[r] = (IF pc[r] \in Services THEN {pc[r]} ELSE {})
        /\ Done(r) => clients[r] = {}
        /\ \A i \in NetworkCalls(r) : i < Len(io[r]) => io[r][i].svc \notin clients[r]

\* The conversion call ended by a transport error (the client left by an
\* exception), the request returned an error and holds no client.
C17_Witness ==
    \E r \in Requests :
        /\ Done(r) /\ IsError(r)
        /\ \E i \in ReturnsOf(r, "convert") : io[r][i].response.transport = "error"
        /\ Cardinality(NetworkCalls(r)) = 2
        /\ clients[r] = {}

(* C18: provided every external call ends, by a response or by a failure,    *)
(* every request ends in exactly one of the two terminal states (an error     *)
(* record or a success record), after at most four external calls.           *)
C18_Terminates ==
    /\ [](\A r \in Requests :
            /\ Cardinality(NetworkCalls(r)) <= 4
            /\ Done(r) => (IsError(r) # IsSuccess(r)))
    /\ <>(\A r \in Requests : Done(r))

\* Every request is done, one of them with a success record after four calls,
\* another with an error record.
C18_Witness ==
    /\ \A r \in Requests : Done(r)
    /\ \E r \in Requests : IsSuccess(r) /\ Cardinality(NetworkCalls(r)) = 4
    /\ \E r \in Requests : IsError(r)

\* The transcription call of request r carries `language` exactly when
\* `sent` says so, and then with the code of the result.
LanguageMatchesResult(r, sent) ==
    \A j \in CallsTo(r, "asr") :
        LET params == io[r][j].request.params
            code == result[r].value.detected_language
        IN  IF sent
              THEN "language" \in DOMAIN params /\ params.language = code.s
              ELSE "language" \notin DOMAIN params

(* C19, as stated: in every successful request the query parameter `language` *)
(* is sent to the transcription endpoint exactly when the result's            *)
(* detected_language is not null, and it then carries that same value.       *)
C19_AsStated ==
    \A r \in Requests :
        (Done(r) /\ IsSuccess(r)) =>
            LanguageMatchesResult(r, result[r].value.detected_language # None)

\* The same with "neither null nor the empty string" for "not null": what
\* `if language:` of transcribe_audio_data does.
C19_ExceptEmptyString ==
    \A r \in Requests :
        (Done(r) /\ IsSuccess(r)) =>
            LanguageMatchesResult(r, Truthy(result[r].value.detected_language))

\* A success whose detected_language is "en", the code the detection gave
\* under detected_language, sent as `language`.
C19_Witness ==
    \E r \in Requests :
        /\ Done(r) /\ IsSuccess(r)
        /\ result[r].value.detected_language = Str(<<"en">>)
        /\ \E j \in CallsTo(r, "asr") : io[r][j].request.params.language = <<"en">>

=============================================================================
